---- MODULE Spec2Model ----
(***************************************************************************)
(* Code-preserving translator: chunker, translation cache, context store,  *)
(* the content script's translation flow and extractor, and translateText  *)
(* and generateChatResponse, modelled from the TypeScript sources.  Text   *)
(* is a sequence of one-character strings.                                 *)
(***************************************************************************)
EXTENDS Integers, Sequences, FiniteSets, TLC

VARIABLES
    \* ---- chunker (helpers.ts splitTextIntoChunks) ----
    text,           \* the argument text
    maxChunkSize,   \* the argument maxChunkSize
    chunks,         \* the returned array
    splitDone,      \* TRUE once splitTextIntoChunks has returned
    remainingSentence, \* the rest of the sentence in the hard-cut loop
    \* ---- clock and browser.storage.local ----
    now,            \* Date.now(), in milliseconds
    ticks,          \* number of clock advances so far
    cacheExpiration,\* settings.cacheExpiration, in minutes
    storage,        \* browser.storage.local: key -> value, for the keys present
    \* ---- observations of the cache operations ----
    puts,           \* number of saveTranslationCache calls so far
    lastPut,        \* fingerprint -> <<[text, translatedText, at]>> of its last put
    lastGet,        \* <<[text, result, at, put]>> of the last cache get
    sweep,          \* <<[before, after, at]>> of the last manageCache run
    \* ---- context store ----
    saveLog,        \* the urls saved so far, oldest first
    saves,          \* number of savePageContext calls made by the actions
    csContext,      \* url -> the content script's pageContext for that page, optional
    qa,             \* the handleChatQuery run awaiting the backend, optional
    savedAt,        \* url -> time of the last save of that url's context, optional
    chatResult,     \* <<[url, result, called]>> of the last answered CHAT_QUERY
    \* ---- content script translation flow ----
    structuredContent,            \* pageContext.structuredContent
    translations,                 \* pageContext.translations: text -> entry, optional
    translatedStructuredContent,  \* pageContext.translatedStructuredContent, optional
    handler,        \* request -> the handleTranslatePage run serving it
    sent,           \* <<request, index>> of every segment sent to the backend
    lastHit,        \* <<[text, at, timestamp]>> of the last reuse from translations
    \* ---- content script extractor ----
    document,       \* the elements of the page, in document order
    extracted,      \* the structuredContent of the last extraction, optional
    displayed,      \* the elements the side panel built from it, optional
    \* ---- translateText and generateChatResponse ----
    apiRequest,     \* [impl, op, text, question, context]: the call to make
    chunkLimit,     \* the 4000 of translateText, scaled to the texts of the model
    apiCall,        \* <<[chunks, outputs]>> of the call awaiting the backend, optional
    backendLog,     \* the inputs sent to the backend, in the order sent
    returned,       \* <<[value, threw, failed]>> once the call has returned or thrown
    \* ---- classifier ----
    code,           \* the classified text: its lines, each an indent and tokens
    classification, \* <<[isCode, language]>> once the text is classified
    \* ---- content scripts starting in their tabs ----
    tab             \* url -> [load, page, save, ...]: the content script of that tab

chunkVars == <<text, maxChunkSize, chunks, splitDone, remainingSentence>>
clockVars == <<now, ticks, cacheExpiration>>
cacheObs == <<puts, lastPut, lastGet, sweep>>
contextVars == <<saveLog, saves, csContext, qa, savedAt, chatResult>>

translateVars == <<structuredContent, translations, translatedStructuredContent,
                   handler, sent, lastHit>>

extractVars == <<document, extracted, displayed>>

apiVars == <<apiRequest, chunkLimit, apiCall, backendLog, returned>>

classifyVars == <<code, classification>>

startupVars == <<tab>>

vars == <<chunkVars, clockVars, storage, cacheObs, contextVars, translateVars,
          extractVars, apiVars, classifyVars, startupVars>>

(***************************************************************************)
(* Bounds of the model                                                     *)
(***************************************************************************)
MaxTextLen == 6      \* longest text handed to the chunker
MaxChunkArg == 3     \* largest maxChunkSize handed to the chunker
MaxTicks == 3        \* clock advances in one behaviour
MaxPuts == 3         \* saveTranslationCache calls in one behaviour
NumDocs == 11        \* distinct documents that can be saved
MaxSaves == 2        \* savePageContext calls in one behaviour
MaxChats == 2        \* question/answer rounds stored for one document
MaxAdvances == 2     \* clock advances between the context store's operations
MaxSegments == 2     \* segments of the translated document
MaxElapses == 1      \* times the short TTL elapses during the translation rounds
MaxNodes == 3        \* elements of the extracted page
MaxApiTextLen == 4   \* longest text handed to translateText
MaxLines == 3        \* lines of a classified text

(***************************************************************************)
(* Characters                                                              *)
(***************************************************************************)
NL == "\n"
SP == " "
Alphabet == {"a", ".", SP, NL}

\* \s of the regular expressions, restricted to the alphabet
IsWs(c) == c \in {SP, NL}

\* [.!?] of the sentence regular expression
IsTerminator(c) == c \in {".", "!", "?"}

RECURSIVE SeqsUpTo(_, _)
SeqsUpTo(S, n) ==
    IF n = 0 THEN {<<>>}
    ELSE LET shorter == SeqsUpTo(S, n - 1)
         IN  shorter \cup {Append(s, c) : s \in {x \in shorter : Len(x) = n - 1}, c \in S}

Texts == SeqsUpTo(Alphabet, MaxTextLen)

(***************************************************************************)
(* text.split(/\n\s*\n/): a match starts at a newline and runs, greedily,  *)
(* to the last newline of the whitespace run that follows it.              *)
(***************************************************************************)
\* index of the last newline j > i with s[i+1..j-1] all whitespace, or 0
ParagraphBreakEnd(s, i) ==
    LET ends == {j \in (i + 1)..Len(s) :
                    /\ s[j] = NL
                    /\ \A k \in (i + 1)..(j - 1) : IsWs(s[k])}
    IN  IF s[i] = NL /\ ends # {} THEN CHOOSE j \in ends : \A k \in ends : k <= j
        ELSE 0

RECURSIVE SplitParagraphsFrom(_, _, _, _)
SplitParagraphsFrom(s, i, cur, acc) ==
    IF i > Len(s) THEN Append(acc, cur)
    ELSE LET e == ParagraphBreakEnd(s, i)
         IN  IF e # 0 THEN SplitParagraphsFrom(s, e + 1, <<>>, Append(acc, cur))
             ELSE SplitParagraphsFrom(s, i + 1, Append(cur, s[i]), acc)

SplitParagraphs(s) == SplitParagraphsFrom(s, 1, <<>>, <<>>)

(***************************************************************************)
(* paragraph.split(/(?<=[.!?])\s+/): a match is a maximal whitespace run   *)
(* whose preceding character is a sentence terminator.                     *)
(***************************************************************************)
SentenceBreakEnd(s, i) ==
    IF i > 1 /\ IsTerminator(s[i - 1]) /\ IsWs(s[i])
    THEN CHOOSE j \in i..Len(s) :
            /\ \A k \in i..j : IsWs(s[k])
            /\ (j = Len(s) \/ ~IsWs(s[j + 1]))
    ELSE 0

RECURSIVE SplitSentencesFrom(_, _, _, _)
SplitSentencesFrom(s, i, cur, acc) ==
    IF i > Len(s) THEN Append(acc, cur)
    ELSE LET e == SentenceBreakEnd(s, i)
         IN  IF e # 0 THEN SplitSentencesFrom(s, e + 1, <<>>, Append(acc, cur))
             ELSE SplitSentencesFrom(s, i + 1, Append(cur, s[i]), acc)

SplitSentences(s) == SplitSentencesFrom(s, 1, <<>>, <<>>)

(***************************************************************************)
(* splitTextIntoChunks                                                     *)
(***************************************************************************)
\* the hard-cut while loop: slices of max characters, pushed as they are cut
RECURSIVE HardCut(_, _)
HardCut(sentence, max) ==
    IF Len(sentence) = 0 THEN <<>>
    ELSE IF Len(sentence) <= max THEN <<sentence>>
    ELSE <<SubSeq(sentence, 1, max)>>
            \o HardCut(SubSeq(sentence, max + 1, Len(sentence)), max)

\* one iteration of the inner loop; st = [chunks, currentChunk]
SentenceStep(st, sentence, max) ==
    IF Len(sentence) > max
    THEN [chunks |-> st.chunks \o HardCut(sentence, max), currentChunk |-> st.currentChunk]
    ELSE IF Len(st.currentChunk) + Len(sentence) > max
    THEN [chunks |-> Append(st.chunks, st.currentChunk), currentChunk |-> sentence]
    ELSE [chunks |-> st.chunks,
          currentChunk |-> st.currentChunk
                            \o (IF st.currentChunk # <<>> THEN <<SP>> ELSE <<>>)
                            \o sentence]

RECURSIVE SentenceLoop(_, _, _, _)
SentenceLoop(st, sentences, k, max) ==
    IF k > Len(sentences) THEN st
    ELSE SentenceLoop(SentenceStep(st, sentences[k], max), sentences, k + 1, max)

\* one iteration of the outer loop
ParagraphStep(st, paragraph, max) ==
    IF Len(paragraph) > max
    THEN SentenceLoop(st, SplitSentences(paragraph), 1, max)
    ELSE IF Len(st.currentChunk) + Len(paragraph) > max
    THEN [chunks |-> Append(st.chunks, st.currentChunk), currentChunk |-> paragraph]
    ELSE [chunks |-> st.chunks,
          currentChunk |-> st.currentChunk
                            \o (IF st.currentChunk # <<>> THEN <<NL, NL>> ELSE <<>>)
                            \o paragraph]

RECURSIVE ParagraphLoop(_, _, _, _)
ParagraphLoop(st, paragraphs, k, max) ==
    IF k > Len(paragraphs) THEN st
    ELSE ParagraphLoop(ParagraphStep(st, paragraphs[k], max), paragraphs, k + 1, max)

\* the split without its early return for a short text
splitTextIntoChunksAlways(t, max) ==
    LET st == ParagraphLoop([chunks |-> <<>>, currentChunk |-> <<>>],
                            SplitParagraphs(t), 1, max)
    IN  IF st.currentChunk # <<>> THEN Append(st.chunks, st.currentChunk)
        ELSE st.chunks

splitTextIntoChunks(t, max) ==
    IF Len(t) <= max THEN <<t>>
    ELSE LET st == ParagraphLoop([chunks |-> <<>>, currentChunk |-> <<>>],
                                 SplitParagraphs(t), 1, max)
         IN  IF st.currentChunk # <<>> THEN Append(st.chunks, st.currentChunk)
             ELSE st.chunks

(***************************************************************************)
(* Optional values: <<>> is null/undefined, <<v>> is the value v.          *)
(***************************************************************************)
None == <<>>
Some(v) == <<v>>

(***************************************************************************)
(* hashString                                                              *)
(***************************************************************************)
CharCode(c) ==
    CASE c = "A" -> 65
      [] c = "B" -> 66
      [] c = "a" -> 97
      [] c = "b" -> 98
      [] c = "." -> 46
      [] c = SP  -> 32
      [] c = NL  -> 10

\* hash = ((hash << 5) - hash) + char; hash = hash & hash.  For the texts of the
\* model (at most five characters) 31 * hash + char stays below 2^31,
\* where the conversion to a 32-bit integer is the identity.
RECURSIVE HashFrom(_, _, _)
HashFrom(str, i, hash) ==
    IF i > Len(str) THEN hash
    ELSE HashFrom(str, i + 1, ((hash * 32) - hash) + CharCode(str[i]))

\* the integer whose base-36 rendering hashString returns
hashString(str) == HashFrom(str, 1, 0)

(***************************************************************************)
(* browser.storage.local: keys are <<prefix, id>>                          *)
(***************************************************************************)
CacheKey(originalText) == <<"cache_", hashString(originalText)>>
PageKey(url) == <<"page_", url>>
RecentPagesKey == <<"recentPages", 0>>

StorageSet(st, key, value) ==
    [k \in DOMAIN st \cup {key} |-> IF k = key THEN value ELSE st[k]]

StorageRemove(st, keys) == [k \in DOMAIN st \ keys |-> st[k]]

EmptyStorage == [k \in {} |-> None]

(***************************************************************************)
(* Program constants                                                       *)
(***************************************************************************)
DefaultCacheExpiration == 5          \* DEFAULT_SETTINGS.cacheExpiration, minutes
MaxCacheExpiration == 60             \* max of the cache-expiration input, minutes
RetentionMs == 604800000             \* manageCache expirationTime: 7 * 24 * 60 * 60 * 1000
MsPerMinute == 60000                 \* expirationMinutes * 60 * 1000
RecentPagesLimit == 10               \* slice(0, 10)
MinLanguageScore == 2                \* maxScore < 2: no language

CacheExpirationChoices == {DefaultCacheExpiration, MaxCacheExpiration}

(***************************************************************************)
(* Translation cache (helpers.ts)                                          *)
(***************************************************************************)
\* isCacheValid with the comparison off by one: an entry aged exactly the TTL is valid
isCacheValidInclusive(result, expirationMinutes, t) ==
    IF result = None THEN FALSE
    ELSE t - result[1].timestamp <= expirationMinutes * MsPerMinute

\* isCacheValid(result, expirationMinutes) at time t; result is optional
isCacheValid(result, expirationMinutes, t) ==
    IF result = None THEN FALSE
    ELSE t - result[1].timestamp < expirationMinutes * MsPerMinute

\* getTranslationCache: result[cacheKey] || null
getTranslationCache(st, originalText) ==
    IF CacheKey(originalText) \in DOMAIN st THEN Some(st[CacheKey(originalText)]) ELSE None

\* manageCache sweeping with the short TTL instead of the retention window
KeysToRemoveShortTtl(st, t) ==
    {k \in DOMAIN st :
        /\ k[1] = "cache_"
        /\ st[k].timestamp # 0
        /\ t - st[k].timestamp > DefaultCacheExpiration * MsPerMinute}

\* the keys manageCache collects in keysToRemove at time t
KeysToRemove(st, t) ==
    {k \in DOMAIN st :
        /\ k[1] = "cache_"
        /\ st[k].timestamp # 0
        /\ t - st[k].timestamp > RetentionMs}

manageCache(st, t) ==
    IF KeysToRemove(st, t) # {} THEN StorageRemove(st, KeysToRemove(st, t)) ELSE st

\* the storage after saveTranslationCache's set, before its manageCache
CacheWritten(st, originalText, translatedText, t) ==
    StorageSet(st, CacheKey(originalText),
               [originalText |-> originalText,
                translatedText |-> translatedText,
                timestamp |-> t])

saveTranslationCache(st, originalText, translatedText, t) ==
    manageCache(CacheWritten(st, originalText, translatedText, t), t)

\* the Cache Manager's get: getTranslationCache, kept only if isCacheValid
CacheGet(st, originalText, expirationMinutes, t) ==
    LET result == getTranslationCache(st, originalText)
    IN  IF isCacheValid(result, expirationMinutes, t)
        THEN Some(result[1].translatedText)
        ELSE None

(***************************************************************************)
(* Context store (helpers.ts)                                              *)
(***************************************************************************)
\* result.recentPages || []
getRecentPages(st) ==
    IF RecentPagesKey \in DOMAIN st THEN st[RecentPagesKey] ELSE <<>>

\* result[key] || null
getPageContext(st, url) ==
    IF PageKey(url) \in DOMAIN st THEN Some(st[PageKey(url)]) ELSE None

Slice(s, n) == SubSeq(s, 1, IF Len(s) < n THEN Len(s) ELSE n)

\* updatedPages without the filter: the saved url is pushed in front of itself
UpdatedPagesUnfiltered(recentPages, url) ==
    Slice(<<url>> \o recentPages, RecentPagesLimit)

\* [context.url, ...recentPages.filter(url => url !== context.url)].slice(0, 10)
UpdatedPages(recentPages, url) ==
    Slice(<<url>> \o SelectSeq(recentPages, LAMBDA u : u # url), RecentPagesLimit)

savePageContext(st, context) ==
    LET written == StorageSet(st, PageKey(context.url), context)
    IN  StorageSet(written, RecentPagesKey,
                   UpdatedPages(getRecentPages(written), context.url))

\* a page context as the content script creates it
NewPageContext(url, t) ==
    [url |-> url, content |-> "", chatHistory |-> <<>>, lastUpdated |-> t]

(***************************************************************************)
(* Idle values of each part, for the specifications that do not run it     *)
(***************************************************************************)
ChunkIdle ==
    /\ text = <<>>
    /\ maxChunkSize = 1
    /\ chunks = <<>>
    /\ splitDone = FALSE
    /\ remainingSentence = <<>>

\* texts handed to the cache: "Aa" and "BB" have the same hashString
CacheTexts == {<<"A", "a">>, <<"B", "B">>, <<"a">>, <<"b">>}
Fingerprints == {hashString(t) : t \in CacheTexts}
\* the backend's outputs: opaque to the cache, a fresh one for every put
Translations == [n \in 1..(MaxPuts + 1) |-> n]
StoreUrls == {1, 2}

ClockInit ==
    /\ now = 1
    /\ ticks = 0

CacheObsIdle ==
    /\ puts = 0
    /\ lastPut = [f \in Fingerprints |-> None]
    /\ lastGet = None
    /\ sweep = None

StoreIdle ==
    /\ ClockInit
    /\ cacheExpiration = DefaultCacheExpiration
    /\ storage = EmptyStorage
    /\ CacheObsIdle

Docs == 1..NumDocs

ContextIdle ==
    /\ saveLog = <<>>
    /\ saves = 0
    /\ csContext = [url \in StoreUrls |-> None]
    /\ qa = None
    /\ savedAt = [url \in StoreUrls |-> None]
    /\ chatResult = None

\* the TRANSLATE_PAGE requests that can overlap
Requests == {1, 2}

IdleHandler ==
    [pc |-> "idle", input |-> <<>>, i |-> 0, translatedItems |-> <<>>,
     failed |-> FALSE, result |-> "none"]

\* the texts of the segments
SegmentTexts == {"x", "y", " ", ""}

NoRequest ==
    [impl |-> "", op |-> "", text |-> <<>>, question |-> <<>>, context |-> <<>>,
     cache |-> "none"]

ApiIdle ==
    /\ apiRequest = NoRequest
    /\ chunkLimit = 1
    /\ apiCall = None
    /\ backendLog = <<>>
    /\ returned = None

ClassifyIdle ==
    /\ code = <<>>
    /\ classification = None

\* a tab whose content script has not started
IdleTab ==
    [load |-> "idle", page |-> "loading", save |-> "none", firstVisit |-> FALSE,
     context |-> <<>>, recentPages |-> <<>>]

StartupIdle == tab = [url \in StoreUrls |-> IdleTab]

ExtractIdle ==
    /\ document = <<>>
    /\ extracted = None
    /\ displayed = None

TranslateIdle ==
    /\ structuredContent = <<>>
    /\ translations = [t \in SegmentTexts |-> None]
    /\ translatedStructuredContent = None
    /\ handler = [h \in Requests |-> IdleHandler]
    /\ sent = {}
    /\ lastHit = None

(***************************************************************************)
(* The chunker as a state machine: draw the arguments, then split.         *)
(***************************************************************************)
InitChunk ==
    /\ text \in Texts
    /\ maxChunkSize \in 1..MaxChunkArg
    /\ chunks = <<>>
    /\ splitDone = FALSE
    /\ remainingSentence = <<>>
    /\ StoreIdle
    /\ ContextIdle
    /\ TranslateIdle
    /\ ExtractIdle
    /\ ApiIdle
    /\ ClassifyIdle
    /\ StartupIdle

Split ==
    /\ ~splitDone
    /\ chunks' = splitTextIntoChunks(text, maxChunkSize)
    /\ splitDone' = TRUE
    /\ UNCHANGED <<text, maxChunkSize, remainingSentence, clockVars, storage, cacheObs,
                   contextVars, translateVars, extractVars, apiVars,
                   classifyVars, startupVars>>

NextChunk == Split

SpecChunk == InitChunk /\ [][NextChunk]_vars

(***************************************************************************)
(* The hard-cut loop of the chunker, one iteration per step                *)
(***************************************************************************)
\* a cut that takes one character more than the slice it pushes
RestAfterCutWide(sentence, max) ==
    SubSeq(sentence, max + 2, Len(sentence))

\* remainingSentence.substring(maxChunkSize)
RestAfterCut(sentence, max) ==
    SubSeq(sentence, max + 1, Len(sentence))

\* remainingSentence.substring(0, maxChunkSize)
FirstSlice(sentence, max) ==
    SubSeq(sentence, 1, IF Len(sentence) < max THEN Len(sentence) ELSE max)

\* a sentence longer than maxChunkSize enters the loop
InitHardCut ==
    /\ text \in Texts
    /\ maxChunkSize \in 1..MaxChunkArg
    /\ Len(text) > maxChunkSize
    /\ remainingSentence = text
    /\ chunks = <<>>
    /\ splitDone = FALSE
    /\ StoreIdle
    /\ ContextIdle
    /\ TranslateIdle
    /\ ExtractIdle
    /\ ApiIdle
    /\ ClassifyIdle
    /\ StartupIdle

\* one iteration of while (remainingSentence.length > 0)
CutSlice ==
    /\ ~splitDone
    /\ Len(remainingSentence) > 0
    /\ chunks' = Append(chunks, FirstSlice(remainingSentence, maxChunkSize))
    /\ remainingSentence' = RestAfterCut(remainingSentence, maxChunkSize)
    /\ UNCHANGED <<text, maxChunkSize, splitDone, clockVars, storage, cacheObs,
                   contextVars, translateVars, extractVars, apiVars,
                   classifyVars, startupVars>>

\* the loop condition fails: the loop is left
CutDone ==
    /\ ~splitDone
    /\ Len(remainingSentence) = 0
    /\ splitDone' = TRUE
    /\ UNCHANGED <<text, maxChunkSize, chunks, remainingSentence, clockVars, storage,
                   cacheObs, contextVars, translateVars, extractVars, apiVars,
                   classifyVars, startupVars>>

NextHardCut == CutSlice \/ CutDone

\* the loop runs on: nothing else is scheduled between its iterations
SpecHardCut == InitHardCut /\ [][NextHardCut]_vars /\ WF_vars(NextHardCut)

(***************************************************************************)
(* The translation cache over the clock                                    *)
(***************************************************************************)
ExpirationMs == cacheExpiration * MsPerMinute
ClockHorizon == 2 * RetentionMs

\* the clock advances that reach the ages the two expiry tests tell apart
TickSteps == {1, ExpirationMs, RetentionMs}

\* the cache starts empty, beside one document context saved on an earlier visit
InitCache ==
    /\ ChunkIdle
    /\ ClockInit
    /\ cacheExpiration \in CacheExpirationChoices
    /\ storage \in {savePageContext(EmptyStorage, NewPageContext(url, 1)) : url \in StoreUrls}
    /\ CacheObsIdle
    /\ ContextIdle
    /\ TranslateIdle
    /\ ExtractIdle
    /\ ApiIdle
    /\ ClassifyIdle
    /\ StartupIdle

Tick ==
    /\ lastGet = None
    /\ ticks < MaxTicks
    /\ \E d \in TickSteps :
        /\ now + d <= ClockHorizon
        /\ now' = now + d
    /\ ticks' = ticks + 1
    /\ UNCHANGED <<chunkVars, cacheExpiration, storage, cacheObs, contextVars, translateVars, extractVars,
                   apiVars,
                   classifyVars, startupVars>>

\* saveTranslationCache(originalText, translatedText)
Put ==
    /\ lastGet = None
    /\ puts < MaxPuts
    /\ \E originalText \in CacheTexts, translatedText \in {Translations[puts + 1]} :
        /\ storage' = saveTranslationCache(storage, originalText, translatedText, now)
        /\ lastPut' = [lastPut EXCEPT ![hashString(originalText)] =
                          Some([text |-> originalText,
                                translatedText |-> translatedText,
                                at |-> now])]
        /\ sweep' = Some([before |-> CacheWritten(storage, originalText, translatedText, now),
                          after |-> storage',
                          at |-> now])
    /\ puts' = puts + 1
    /\ UNCHANGED <<chunkVars, clockVars, lastGet, contextVars, translateVars, extractVars,
                   apiVars,
                   classifyVars, startupVars>>

\* a cache get: getTranslationCache, then isCacheValid under the configured TTL;
\* the behaviour is observed up to its first get
Get ==
    /\ lastGet = None
    /\ \E originalText \in CacheTexts :
        lastGet' = Some([text |-> originalText,
                         result |-> CacheGet(storage, originalText, cacheExpiration, now),
                         at |-> now,
                         put |-> lastPut[hashString(originalText)]])
    /\ UNCHANGED <<chunkVars, clockVars, storage, puts, lastPut, sweep, contextVars, translateVars, extractVars,
                   apiVars,
                   classifyVars, startupVars>>

NextCache == Tick \/ Put \/ Get

SpecCache == InitCache /\ [][NextCache]_vars

(***************************************************************************)
(* The tracked-document list under a sequence of saves                     *)
(***************************************************************************)
RECURSIVE SaveAll(_, _, _)
SaveAll(st, urls, t) ==
    IF urls = <<>> THEN st
    ELSE SaveAll(savePageContext(st, NewPageContext(Head(urls), t)), Tail(urls), t)

\* the first n documents
DocRun(n) == [i \in 1..n |-> i]

\* the store after the first n documents have been saved one after the other
InitRecent ==
    /\ ChunkIdle
    /\ ClockInit
    /\ cacheExpiration = DefaultCacheExpiration
    /\ CacheObsIdle
    /\ \E n \in 0..RecentPagesLimit :
        /\ saveLog = DocRun(n)
        /\ storage = SaveAll(EmptyStorage, DocRun(n), 1)
    /\ saves = 0
    /\ csContext = [url \in StoreUrls |-> None]
    /\ qa = None
    /\ savedAt = [url \in StoreUrls |-> None]
    /\ chatResult = None
    /\ TranslateIdle
    /\ ExtractIdle
    /\ ApiIdle
    /\ ClassifyIdle
    /\ StartupIdle

\* handleSavePageContext(context): savePageContext(context)
SaveContext ==
    /\ saves < MaxSaves
    /\ \E url \in Docs :
        /\ storage' = savePageContext(storage, NewPageContext(url, now))
        /\ saveLog' = Append(saveLog, url)
    /\ saves' = saves + 1
    /\ UNCHANGED <<chunkVars, clockVars, cacheObs, csContext, qa, savedAt, chatResult, translateVars, extractVars,
                   apiVars,
                   classifyVars, startupVars>>

NextRecent == SaveContext

SpecRecent == InitRecent /\ [][NextRecent]_vars

(***************************************************************************)
(* The context store under the content script and the background QA round  *)
(***************************************************************************)
PageText == "page text"
Queries == {"question"}
Answer == "answer"

InitContext ==
    /\ ChunkIdle
    /\ StoreIdle
    /\ ContextIdle
    /\ TranslateIdle
    /\ ExtractIdle
    /\ ApiIdle
    /\ ClassifyIdle
    /\ StartupIdle

ClockAdvance ==
    /\ ticks < MaxAdvances
    /\ now' = now + 1
    /\ ticks' = ticks + 1
    /\ UNCHANGED <<chunkVars, cacheExpiration, storage, cacheObs, contextVars, translateVars, extractVars,
                   apiVars,
                   classifyVars, startupVars>>

\* ContentScript.initializePageContext: the stored context, or a new one
CsInitialize ==
    /\ \E url \in StoreUrls :
        /\ csContext[url] = None
        /\ csContext' = [csContext EXCEPT ![url] =
                            IF getPageContext(storage, url) # None
                            THEN getPageContext(storage, url)
                            ELSE Some(NewPageContext(url, now))]
    /\ UNCHANGED <<chunkVars, clockVars, storage, cacheObs, saveLog, saves, qa, savedAt, chatResult, translateVars, extractVars,
                   apiVars,
                   classifyVars, startupVars>>

\* ContentScript.savePageContext: refresh lastUpdated, send SAVE_PAGE_CONTEXT;
\* the background's handleSavePageContext stores it with savePageContext
CsSave(url, context) ==
    LET refreshed == [context EXCEPT !.lastUpdated = now]
    IN  /\ csContext' = [csContext EXCEPT ![url] = Some(refreshed)]
        /\ storage' = savePageContext(storage, refreshed)
        /\ savedAt' = [savedAt EXCEPT ![url] = Some(now)]

\* ContentScript.processPage: extract the content, then save
CsProcessPage ==
    /\ \E url \in StoreUrls :
        /\ csContext[url] # None
        /\ CsSave(url, [csContext[url][1] EXCEPT !.content = PageText])
    /\ UNCHANGED <<chunkVars, clockVars, cacheObs, saveLog, saves, qa, chatResult, translateVars, extractVars,
                   apiVars,
                   classifyVars, startupVars>>

\* ContentScript.handleTranslatePage: the save that ends a translation round
CsTranslatePageSave ==
    /\ \E url \in StoreUrls :
        /\ csContext[url] # None
        /\ csContext[url][1].content # ""
        /\ CsSave(url, csContext[url][1])
    /\ UNCHANGED <<chunkVars, clockVars, cacheObs, saveLog, saves, qa, chatResult, translateVars, extractVars,
                   apiVars,
                   classifyVars, startupVars>>

\* handleChatQuery up to its backend call: load the context, send the question
ChatQueryStart ==
    /\ qa = None
    /\ \E url \in StoreUrls, query \in Queries :
        /\ getPageContext(storage, url) # None
        /\ Len(getPageContext(storage, url)[1].chatHistory) < 2 * MaxChats
        /\ qa' = Some([url |-> url, query |-> query,
                       context |-> getPageContext(storage, url)[1]])
    /\ UNCHANGED <<chunkVars, clockVars, storage, cacheObs, saveLog, saves, csContext, savedAt, chatResult,
                   translateVars, extractVars,
                   apiVars,
                   classifyVars, startupVars>>

\* a round that stores the answer without the question
AnsweredAnswerOnly(context, query, response, t) ==
    [context EXCEPT !.chatHistory =
        @ \o <<[role |-> "assistant", content |-> response, timestamp |-> t]>>]

\* the context handleChatQuery saves after a successful backend call
Answered(context, query, response, t) ==
    [context EXCEPT !.chatHistory =
        @ \o <<[role |-> "user", content |-> query, timestamp |-> t],
               [role |-> "assistant", content |-> response, timestamp |-> t]>>]

\* the responses of handleChatQuery
ChatResponse(success, response, error) ==
    [success |-> success, response |-> response, error |-> error]

\* a not-found failure reported with a backend error's message
ContextNotFoundGeneric == ChatResponse(FALSE, "", "API Error")

\* { success: false, error: 'ページコンテキストが見つかりません' }
ContextNotFound == ChatResponse(FALSE, "", "page context not found")

\* the error of a failed generateChatResponse: `API Error: ...` of a rejected
\* request, 'APIクライアントが初期化されていません', or the handler's own
\* 'チャットクエリの処理に失敗しました' for a thrown value that is no Error
BackendErrors == {"API Error", "API client not initialized", "chat query failed"}

\* handleChatQuery for a url without a stored context: the failure is returned
\* before generateChatResponse is called
ChatQueryNotFound ==
    /\ qa = None
    /\ \E url \in StoreUrls :
        /\ getPageContext(storage, url) = None
        /\ chatResult' = Some([url |-> url, result |-> ContextNotFound, called |-> FALSE])
    /\ UNCHANGED <<chunkVars, clockVars, storage, cacheObs, saveLog, saves, csContext,
                   qa, savedAt, translateVars, extractVars,
                   apiVars,
                   classifyVars, startupVars>>

\* handleChatQuery from the backend's response on: push both messages and save,
\* or report the failure
ChatQueryFinish ==
    /\ qa # None
    /\ \/ /\ storage' = savePageContext(storage,
                            Answered(qa[1].context, qa[1].query, Answer, now))
          /\ savedAt' = [savedAt EXCEPT ![qa[1].url] = Some(now)]
          /\ chatResult' = Some([url |-> qa[1].url, called |-> TRUE,
                                 result |-> ChatResponse(TRUE, Answer, "")])
       \/ /\ \E error \in BackendErrors :
                chatResult' = Some([url |-> qa[1].url, called |-> TRUE,
                                    result |-> ChatResponse(FALSE, "", error)])
          /\ UNCHANGED <<storage, savedAt>>
    /\ qa' = None
    /\ UNCHANGED <<chunkVars, clockVars, cacheObs, saveLog, saves, csContext, translateVars, extractVars,
                   apiVars,
                   classifyVars, startupVars>>

NextContext ==
    \/ ClockAdvance
    \/ CsInitialize
    \/ CsProcessPage
    \/ CsTranslatePageSave
    \/ ChatQueryStart
    \/ ChatQueryNotFound
    \/ ChatQueryFinish

SpecContext == InitContext /\ [][NextContext]_vars

(***************************************************************************)
(* The content script's page translation (TRANSLATE_PAGE)                  *)
(***************************************************************************)
Item(type, content, tag) == [type |-> type, content |-> content, tag |-> tag]

\* the segments a document is drawn from
Items ==
    { Item("heading", "x", "h1"), Item("paragraph", "y", "p"),
      Item("paragraph", " ", "p"), Item("list", "", "ul"),
      Item("code", "x", "pre"), Item("image", "y", "img") }

\* text.trim().length === 0
IsBlank(content) == content \in {"", " "}

\* the backend's translation of a text
Ja(content) == IF content = "x" THEN "X" ELSE IF content = "y" THEN "Y" ELSE content

\* translateStructuredContent, per item: push it as it is, or translate it
ItemActionNoCodeSkip(item) ==
    IF item.content # "" THEN "translate" ELSE "copy"

ItemAction(item) ==
    IF item.type = "code" THEN "copy"
    ELSE IF item.type = "image" /\ item.content # "" THEN "translate"
    ELSE IF item.content # "" THEN "translate"
    ELSE "copy"

\* a loop that leaves out the items it does not translate
RECURSIVE CopyRunDropping(_, _, _)
CopyRunDropping(input, i, items) ==
    IF i <= Len(input) /\ ItemAction(input[i]) = "copy"
    THEN CopyRunDropping(input, i + 1, items)
    ELSE [i |-> i, translatedItems |-> items]

\* the loop of translateStructuredContent up to its next await: the items
\* pushed without a translation
RECURSIVE CopyRun(_, _, _)
CopyRun(input, i, items) ==
    IF i <= Len(input) /\ ItemAction(input[i]) = "copy"
    THEN CopyRun(input, i + 1, Append(items, input[i]))
    ELSE [i |-> i, translatedItems |-> items]

InitTranslate ==
    /\ ChunkIdle
    /\ StoreIdle
    /\ ContextIdle
    /\ structuredContent \in {s \in SeqsUpTo(Items, MaxSegments) : s # <<>>}
    /\ translations = [t \in SegmentTexts |-> None]
    /\ translatedStructuredContent = None
    /\ handler = [h \in Requests |-> IdleHandler]
    /\ sent = {}
    /\ lastHit = None
    /\ ExtractIdle
    /\ ApiIdle
    /\ ClassifyIdle
    /\ StartupIdle

\* the short TTL elapses
TtlElapses ==
    /\ ticks < MaxElapses
    /\ now' = now + ExpirationMs
    /\ ticks' = ticks + 1
    /\ UNCHANGED <<chunkVars, cacheExpiration, storage, cacheObs, contextVars, translateVars, extractVars,
                   apiVars,
                   classifyVars, startupVars>>

\* translateStructuredContent from item i on, up to the next await:
\* ContentScript.translateText returns null for a blank text, the stored
\* translation if there is one, and sends TRANSLATE_TEXT otherwise
Resume(h, input, i, items) ==
    LET r == CopyRun(input, i, items)
        at == [handler[h] EXCEPT !.input = input, !.i = r.i,
                                 !.translatedItems = r.translatedItems]
    IN  IF r.i > Len(input)
        THEN /\ translatedStructuredContent' = Some(r.translatedItems)
             /\ handler' = [handler EXCEPT ![h] = [at EXCEPT !.pc = "save"]]
             /\ UNCHANGED <<sent, lastHit>>
        ELSE LET item == input[r.i]
             IN  IF IsBlank(item.content)
                 THEN /\ handler' = [handler EXCEPT ![h] =
                            [at EXCEPT !.pc = "sleep",
                                       !.translatedItems = Append(@, item)]]
                      /\ UNCHANGED <<translatedStructuredContent, sent, lastHit>>
                 ELSE IF translations[item.content] # None
                 THEN /\ handler' = [handler EXCEPT ![h] =
                            [at EXCEPT !.pc = "sleep",
                                       !.translatedItems = Append(@,
                                           [item EXCEPT !.content =
                                               translations[item.content][1].translatedText])]]
                      /\ lastHit' = Some([text |-> item.content, at |-> now,
                                          timestamp |-> translations[item.content][1].timestamp])
                      /\ UNCHANGED <<translatedStructuredContent, sent>>
                 ELSE /\ handler' = [handler EXCEPT ![h] = [at EXCEPT !.pc = "awaitTranslate"]]
                      /\ sent' = sent \cup {<<h, r.i>>}
                      /\ UNCHANGED <<translatedStructuredContent, lastHit>>

\* handleTranslatePage: a TRANSLATE_PAGE request starts translateStructuredContent
StartTranslatePage(h) ==
    /\ handler[h].pc = "idle"
    /\ Resume(h, structuredContent, 1, <<>>)
    /\ UNCHANGED <<chunkVars, clockVars, storage, cacheObs, contextVars,
                   structuredContent, translations, extractVars,
                   apiVars,
                   classifyVars, startupVars>>

\* the response to TRANSLATE_TEXT: on success the translation is stored in
\* pageContext.translations and pushed; on failure translateText returns null
\* and the item is pushed as it is
TranslateResponse(h) ==
    /\ handler[h].pc = "awaitTranslate"
    /\ \E ok \in BOOLEAN :
        LET item == handler[h].input[handler[h].i]
        IN  IF ok
            THEN /\ translations' = [translations EXCEPT ![item.content] =
                        Some([translatedText |-> Ja(item.content), timestamp |-> now])]
                 /\ handler' = [handler EXCEPT ![h] =
                        [@ EXCEPT !.pc = "sleep",
                                  !.translatedItems = Append(@,
                                      [item EXCEPT !.content = Ja(item.content)])]]
            ELSE /\ handler' = [handler EXCEPT ![h] =
                        [@ EXCEPT !.pc = "sleep", !.failed = TRUE,
                                  !.translatedItems = Append(@, item)]]
                 /\ UNCHANGED translations
    /\ UNCHANGED <<chunkVars, clockVars, storage, cacheObs, contextVars,
                   structuredContent, translatedStructuredContent, sent, lastHit, extractVars,
                   apiVars,
                   classifyVars, startupVars>>

\* sleep(1000) is over: the loop goes on with the next item
SleepDone(h) ==
    /\ handler[h].pc = "sleep"
    /\ Resume(h, handler[h].input, handler[h].i + 1, handler[h].translatedItems)
    /\ UNCHANGED <<chunkVars, clockVars, storage, cacheObs, contextVars,
                   structuredContent, translations, extractVars,
                   apiVars,
                   classifyVars, startupVars>>

\* handleTranslatePage after translateStructuredContent: savePageContext, then
\* success; failure only if the save message is rejected
SaveDone(h) ==
    /\ handler[h].pc = "save"
    /\ \E ok \in BOOLEAN :
        handler' = [handler EXCEPT ![h] =
            [@ EXCEPT !.pc = "done", !.result = IF ok THEN "success" ELSE "failure"]]
    /\ UNCHANGED <<chunkVars, clockVars, storage, cacheObs, contextVars,
                   structuredContent, translations, translatedStructuredContent,
                   sent, lastHit, extractVars,
                   apiVars,
                   classifyVars, startupVars>>

NextTranslate ==
    \/ TtlElapses
    \/ \E h \in Requests : StartTranslatePage(h)
    \/ \E h \in Requests : TranslateResponse(h)
    \/ \E h \in Requests : SleepDone(h)
    \/ \E h \in Requests : SaveDone(h)

SpecTranslate == InitTranslate /\ [][NextTranslate]_vars

(***************************************************************************)
(* The content script's extractor (extractStructuredContent)               *)
(***************************************************************************)
\* attr.name.startsWith('on'): names are sequences of characters
StartsWithOn(name) == Len(name) >= 2 /\ SubSeq(name, 1, 2) = <<"o", "n">>

\* attr.value.includes('javascript:'): values are sequences of tokens
IncludesJavascript(value) == \E i \in 1..Len(value) : value[i] = "javascript:"

Attr(name, value) == [name |-> name, value |-> value]

AttrClass == Attr(<<"c", "l", "a", "s", "s">>, <<"note">>)
AttrSrc == Attr(<<"s", "r", "c">>, <<"https://host/a.png">>)
AttrAlt == Attr(<<"a", "l", "t">>, <<"y">>)
AttrHref == Attr(<<"h", "r", "e", "f">>, <<"https://host/">>)
AttrOnclick == Attr(<<"o", "n", "c", "l", "i", "c", "k">>, <<"f()">>)
AttrHrefScript == Attr(<<"h", "r", "e", "f">>, <<"javascript:", "f()">>)

Element(tag, textContent, attributes) ==
    [tag |-> tag, textContent |-> textContent, attributes |-> attributes]

\* the elements a page is drawn from
Elements ==
    { Element("h1", "x", {AttrClass}),
      Element("p", "y", {AttrOnclick}),
      Element("p", "x", {AttrHrefScript, AttrClass}),
      Element("ul", "y", {}),
      Element("pre", "x", {AttrHref}),
      Element("code", "y", {}),
      Element("img", "", {AttrSrc, AttrAlt}),
      Element("div", "x", {}) }

\* getElementAttributes: the attributes that are no event handler and hold no
\* javascript: value
getElementAttributes(element) ==
    {attr \in element.attributes :
        ~StartsWithOn(attr.name) /\ ~IncludesJavascript(attr.value)}

\* image.getAttribute('alt') || ''
AltOf(element) ==
    IF \E attr \in element.attributes : attr.name = AttrAlt.name
    THEN (CHOOSE attr \in element.attributes : attr.name = AttrAlt.name).value[1]
    ELSE ""

\* the item pushed for the element at position node of the document; node
\* records where the item comes from
Extracted(type, element, node) ==
    [type |-> type,
     content |-> IF type = "image" THEN AltOf(element) ELSE element.textContent,
     tag |-> element.tag,
     attributes |-> getElementAttributes(element),
     node |-> node]

\* element.querySelectorAll(tags).forEach(push): the matching elements in
\* document order
RECURSIVE SelectAll(_, _, _, _)
SelectAll(doc, node, tags, type) ==
    IF node > Len(doc) THEN <<>>
    ELSE (IF doc[node].tag \in tags
          THEN <<Extracted(type, doc[node], node)>> ELSE <<>>)
         \o SelectAll(doc, node + 1, tags, type)

\* extractStructuredContent: headings, then paragraphs, lists, code, images
extractStructuredContent(doc) ==
    SelectAll(doc, 1, {"h1", "h2", "h3", "h4", "h5", "h6"}, "heading")
    \o SelectAll(doc, 1, {"p"}, "paragraph")
    \o SelectAll(doc, 1, {"ul", "ol"}, "list")
    \o SelectAll(doc, 1, {"pre", "code"}, "code")
    \o SelectAll(doc, 1, {"img"}, "image")

InitExtract ==
    /\ ChunkIdle
    /\ StoreIdle
    /\ ContextIdle
    /\ TranslateIdle
    /\ document \in SeqsUpTo(Elements, MaxNodes)
    /\ extracted = None
    /\ displayed = None
    /\ ApiIdle
    /\ ClassifyIdle
    /\ StartupIdle

\* extractPageContent calls extractStructuredContent on the page
Extract ==
    /\ extracted = None
    /\ extracted' = Some(extractStructuredContent(document))
    /\ UNCHANGED <<chunkVars, clockVars, storage, cacheObs, contextVars, translateVars,
                   document, displayed, apiVars,
                   classifyVars, startupVars>>

\* the attributes displayStructuredContent does not set
UnsafeKeys ==
    { AttrSrc.name, AttrHref.name, AttrOnclick.name,
      <<"o", "n", "e", "r", "r", "o", "r">>, <<"o", "n", "l", "o", "a", "d">> }

\* the element displayStructuredContent creates for an item: its tag by the
\* item's type, the item's attributes set on it except the unsafe keys
DisplayedTag(item) ==
    CASE item.type = "heading" -> IF item.tag # "" THEN item.tag ELSE "h3"
      [] item.type = "paragraph" -> "p"
      [] item.type = "list" -> IF item.tag = "ol" THEN "ol" ELSE "ul"
      [] item.type = "code" -> "pre"
      [] item.type = "image" -> "div"
      [] OTHER -> "div"

DisplayedElement(item) ==
    [tag |-> DisplayedTag(item),
     textContent |-> item.content,
     attributes |-> {attr \in item.attributes : attr.name \notin UnsafeKeys}]

\* SidePanel.displayStructuredContent: one appended element per item
displayStructuredContent(items) ==
    [i \in 1..Len(items) |-> DisplayedElement(items[i])]

Display ==
    /\ extracted # None
    /\ displayed = None
    /\ displayed' = Some(displayStructuredContent(extracted[1]))
    /\ UNCHANGED <<chunkVars, clockVars, storage, cacheObs, contextVars, translateVars,
                   document, extracted, apiVars,
                   classifyVars, startupVars>>

NextExtract == Extract \/ Display

SpecExtract == InitExtract /\ [][NextExtract]_vars

(***************************************************************************)
(* translateText and generateChatResponse: ApiClient (types/index.ts, its  *)
(* two revisions) and TranslationEngine (translationEngine.ts)             *)
(***************************************************************************)
Impls == {"ApiClient", "ApiClientEarlier", "TranslationEngine"}

\* !text || text.trim().length === 0
IsBlankText(t) == \A i \in 1..Len(t) : IsWs(t[i])

\* isCodeBlock(text): each keyword pattern needs letters, and the special-character
\* ratio needs characters, that no text over Alphabet has
isCodeBlock(t) == FALSE

\* the backend's output for an input
BackendOutput(t) == [i \in 1..Len(t) |-> IF t[i] = "a" THEN "A" ELSE t[i]]

\* the fixed answers of ApiClient.generateChatResponse
EmptyQuestionFallback == <<"empty question">>
EmptyContextFallback == <<"empty context">>

\* array.join(sep)
RECURSIVE Join(_, _)
Join(ss, sep) ==
    IF ss = <<>> THEN <<>>
    ELSE IF Len(ss) = 1 THEN ss[1]
    ELSE ss[1] \o sep \o Join(Tail(ss), sep)

\* the texts handed to translateText, the questions and the page contents
ApiTexts == SeqsUpTo(Alphabet, MaxApiTextLen)
ChatTexts == {<<>>, <<SP>>, <<"a">>}
ChunkLimits == {2, 3}

\* the cache before the call: no entry for the text, one written just now, or
\* one whose age is the short TTL
CacheStates == {"none", "fresh", "stale"}

CacheBefore(t, state, at) ==
    IF state = "none" THEN EmptyStorage
    ELSE CacheWritten(EmptyStorage, t, <<"c">>,
                      IF state = "fresh" THEN at
                      ELSE at - DefaultCacheExpiration * MsPerMinute)

InitApi ==
    /\ ChunkIdle
    /\ now = 1 + DefaultCacheExpiration * MsPerMinute
    /\ ticks = 0
    /\ cacheExpiration = DefaultCacheExpiration
    /\ CacheObsIdle
    /\ ContextIdle
    /\ TranslateIdle
    /\ ExtractIdle
    /\ ClassifyIdle
    /\ StartupIdle
    /\ apiCall = None
    /\ backendLog = <<>>
    /\ returned = None
    /\ chunkLimit \in ChunkLimits
    /\ \/ \E impl \in Impls, t \in ApiTexts, state \in CacheStates :
            /\ apiRequest = [impl |-> impl, op |-> "translateText", text |-> t,
                             question |-> <<>>, context |-> <<>>, cache |-> state]
            /\ storage = CacheBefore(t, state, now)
       \/ \E impl \in Impls, q \in ChatTexts, c \in ChatTexts :
            /\ apiRequest = [impl |-> impl, op |-> "generateChatResponse",
                             text |-> <<>>, question |-> q, context |-> c,
                             cache |-> "none"]
            /\ storage = EmptyStorage

\* a translateText that sends every text whole
ChunksToSendWhole(request, limit) == <<request.text>>

\* the inputs translateText sends: the chunks of a long text in TranslationEngine,
\* the whole text otherwise
ChunksToSend(request, limit) ==
    IF request.impl = "TranslationEngine" /\ Len(request.text) > limit
    THEN splitTextIntoChunks(request.text, limit)
    ELSE <<request.text>>

\* what the call returns before any backend call, if it does
AnswersWithoutBackend(request, st, expirationMinutes, t) ==
    IF request.op = "translateText"
    THEN IF request.impl = "ApiClient"
         THEN IF IsBlankText(request.text) THEN Some(request.text) ELSE None
         ELSE IF request.impl = "TranslationEngine"
         THEN IF isCodeBlock(request.text) THEN Some(request.text)
              ELSE LET cached == getTranslationCache(st, request.text)
                   IN  IF /\ cached # None
                          /\ cached[1].translatedText # <<>>
                          /\ cached[1].timestamp # 0
                          /\ isCacheValid(cached, expirationMinutes, t)
                       THEN Some(cached[1].translatedText)
                       ELSE None
         ELSE None
    ELSE IF request.impl = "ApiClient"
         THEN IF IsBlankText(request.question) THEN Some(EmptyQuestionFallback)
              ELSE IF IsBlankText(request.context) THEN Some(EmptyContextFallback)
              ELSE None
         ELSE None

\* the end of a call whose backend outputs are all in: TranslationEngine joins
\* the outputs and saves the result under the full text
Completed(request, outputs) ==
    /\ returned' = Some([value |-> Join(outputs, <<SP>>), threw |-> FALSE,
                         failed |-> FALSE])
    /\ storage' = IF request.op = "translateText" /\ request.impl = "TranslationEngine"
                  THEN saveTranslationCache(storage, request.text,
                                            Join(outputs, <<SP>>), now)
                  ELSE storage
    /\ apiCall' = None

\* a catch that stores what it has under the full text before it rethrows
FailedSavingPartial(request) ==
    /\ returned' = Some([value |-> <<>>, threw |-> TRUE, failed |-> TRUE])
    /\ storage' = IF request.op = "translateText" /\ request.impl = "TranslationEngine"
                  THEN saveTranslationCache(storage, request.text, <<>>, now)
                  ELSE storage
    /\ apiCall' = None

\* the end of a call one of whose backend requests failed: Promise.all or the
\* single await rejects, the catch logs and rethrows, nothing is saved
Failed(request) ==
    /\ returned' = Some([value |-> <<>>, threw |-> TRUE, failed |-> TRUE])
    /\ storage' = storage
    /\ apiCall' = None

\* the inputs of the call's backend requests
BackendInputs(request, limit) ==
    IF request.op = "translateText" THEN ChunksToSend(request, limit)
    ELSE <<Join(<<request.context, request.question>>, <<NL>>)>>

\* translateText or generateChatResponse up to its backend requests: all of
\* them are sent before the first response is awaited (Promise.all)
ApiCall ==
    /\ apiCall = None
    /\ returned = None
    /\ LET early == AnswersWithoutBackend(apiRequest, storage, cacheExpiration, now)
           inputs == BackendInputs(apiRequest, chunkLimit)
       IN  IF early # None
           THEN /\ returned' = Some([value |-> early[1], threw |-> FALSE,
                                     failed |-> FALSE])
                /\ UNCHANGED <<apiCall, backendLog, storage>>
           ELSE IF inputs = <<>>
           THEN /\ Completed(apiRequest, <<>>)
                /\ UNCHANGED backendLog
           ELSE /\ apiCall' = Some([inputs |-> inputs,
                                    outputs |-> [i \in 1..Len(inputs) |-> None]])
                /\ backendLog' = inputs
                /\ UNCHANGED <<returned, storage>>
    /\ UNCHANGED <<chunkVars, clockVars, cacheObs, contextVars, translateVars,
                   extractVars, apiRequest, chunkLimit,
                   classifyVars, startupVars>>

\* the backend answers one of the requests in flight: the last output completes
\* the call, a failure makes it throw
BackendResponds ==
    /\ apiCall # None
    /\ \E i \in 1..Len(apiCall[1].inputs), ok \in BOOLEAN :
        /\ apiCall[1].outputs[i] = None
        /\ IF ok
           THEN LET outs == [apiCall[1].outputs EXCEPT
                                ![i] = Some(BackendOutput(apiCall[1].inputs[i]))]
                IN  IF \A j \in 1..Len(outs) : outs[j] # None
                    THEN Completed(apiRequest, [j \in 1..Len(outs) |-> outs[j][1]])
                    ELSE /\ apiCall' = Some([apiCall[1] EXCEPT !.outputs = outs])
                         /\ UNCHANGED <<returned, storage>>
           ELSE Failed(apiRequest)
    /\ UNCHANGED <<chunkVars, clockVars, cacheObs, contextVars, translateVars,
                   extractVars, apiRequest, chunkLimit, backendLog,
                   classifyVars, startupVars>>

NextApi == ApiCall \/ BackendResponds

SpecApi == InitApi /\ [][NextApi]_vars

(***************************************************************************)
(* The classifier: isCodeBlock (helpers.ts) and detectLanguage             *)
(* (CodeBlockDetector).  A text is the sequence of its lines; a line is    *)
(* its indent (leading spaces) and its tokens: words (\w+) and punctuation.*)
(* Two adjacent words are separated by whitespace; punctuation is attached.*)
(***************************************************************************)
Line(indent, tokens) == [indent |-> indent, tokens |-> tokens]

\* [{}[\]()<>:;=+\-*/%&|^!~]
SpecialChars ==
    {"{", "}", "[", "]", "(", ")", "<", ">", ":", ";", "=", "+", "-", "*", "/",
     "%", "&", "|", "^", "!", "~"}

Punctuation == SpecialChars \cup {".", ",", "#", "@", "$", "?", "\\"}

\* \w+
IsWord(token) == token \notin Punctuation

\* /^(a|b)/m: a line without indent whose first token is one of the words
Starts(c, words) ==
    \E l \in 1..Len(c) :
        /\ c[l].indent = 0
        /\ Len(c[l].tokens) >= 1
        /\ c[l].tokens[1] \in words

\* /^(a|b)\s+\w+/m
StartsThenWord(c, words) ==
    \E l \in 1..Len(c) :
        /\ c[l].indent = 0
        /\ Len(c[l].tokens) >= 2
        /\ c[l].tokens[1] \in words
        /\ IsWord(c[l].tokens[2])

\* /^(a|b)\s+[\w.]+;/m and /^(\.|#)[\w-]+\s*{/m
StartsThenWordThen(c, words, token) ==
    \E l \in 1..Len(c) :
        /\ c[l].indent = 0
        /\ Len(c[l].tokens) >= 3
        /\ c[l].tokens[1] \in words
        /\ IsWord(c[l].tokens[2])
        /\ c[l].tokens[3] = token

\* /^(a|b)\s+(x|y)/m
StartsThenOneOf(c, words, nexts) ==
    \E l \in 1..Len(c) :
        /\ c[l].indent = 0
        /\ Len(c[l].tokens) >= 2
        /\ c[l].tokens[1] \in words
        /\ c[l].tokens[2] \in nexts

\* /\b(a|b)\b/
Has(c, words) ==
    \E l \in 1..Len(c) : \E i \in 1..Len(c[l].tokens) : c[l].tokens[i] \in words

\* /(a|b)x/: one of the words directly followed by the token
HasThen(c, words, token) ==
    \E l \in 1..Len(c) : \E i \in 1..(Len(c[l].tokens) - 1) :
        c[l].tokens[i] \in words /\ c[l].tokens[i + 1] = token

\* /(a|b)\.\w+\(/
HasCall(c, objects) ==
    \E l \in 1..Len(c) : \E i \in 1..(Len(c[l].tokens) - 3) :
        /\ c[l].tokens[i] \in objects
        /\ c[l].tokens[i + 1] = "."
        /\ IsWord(c[l].tokens[i + 2])
        /\ c[l].tokens[i + 3] = "("

\* /\s{4}def\s+\w+\(/
HasIndentedDef(c) ==
    \E l \in 1..Len(c) :
        /\ c[l].indent >= 4
        /\ Len(c[l].tokens) >= 3
        /\ c[l].tokens[1] = "def"
        /\ IsWord(c[l].tokens[2])
        /\ c[l].tokens[3] = "("

\* /:\s*(string|number|boolean|any|void|never)\b/
HasTypeAnnotation(c) ==
    HasThen(c, {":"}, "string") \/ HasThen(c, {":"}, "number")
    \/ HasThen(c, {":"}, "boolean") \/ HasThen(c, {":"}, "any")
    \/ HasThen(c, {":"}, "void") \/ HasThen(c, {":"}, "never")

\* the patterns of detectLanguage, per language, each matched or not
LanguagePatterns(c) ==
    [javascript |->
        << StartsThenWord(c, {"const", "let", "var", "function", "class", "import", "export"}),
           HasCall(c, {"document", "window", "console"}),
           Has(c, {"setTimeout", "setInterval", "Promise", "async", "await"}) >>,
     typescript |->
        << StartsThenWord(c, {"interface", "type", "enum"}),
           HasTypeAnnotation(c),
           \E l \in 1..Len(c) : \E i \in 1..(Len(c[l].tokens) - 2) :
               /\ c[l].tokens[i] = "<"
               /\ c[l].tokens[i + 1] \in {"T", "Props", "Array"}
               /\ c[l].tokens[i + 2] = ">" >>,
     python |->
        << Starts(c, {"def", "class", "import", "from", "if __name__"}),
           Has(c, {"self", "None", "True", "False"}),
           HasIndentedDef(c) >>,
     java |->
        << StartsThenOneOf(c, {"public", "private", "protected"},
                           {"class", "interface", "enum"}),
           Has(c, {"extends", "implements", "@Override"}),
           HasCall(c, {"System.out"}) >>,
     csharp |->
        << StartsThenWord(c, {"using", "namespace"}),
           \E l \in 1..Len(c) : \E i \in 1..(Len(c[l].tokens) - 1) :
               /\ c[l].tokens[i] \in {"public", "private", "protected"}
               /\ c[l].tokens[i + 1] \in {"class", "interface", "enum", "struct"},
           HasCall(c, {"Console"}) >>,
     php |->
        << Starts(c, {"<?php", "?>"}),
           HasThen(c, {"$"}, "this") \/ HasThen(c, {"$"}, "_GET")
               \/ HasThen(c, {"$"}, "_POST"),
           Has(c, {"echo", "print", "require", "include"}) >>,
     html |->
        << Len(c) >= 1 /\ c[1].indent = 0 /\ Len(c[1].tokens) >= 1
               /\ c[1].tokens[1] = "<!DOCTYPE html>",
           HasThen(c, {"<"}, "html"),
           \E tag \in {"head", "body", "div", "span", "p", "a", "img", "script",
                       "link", "meta"} : HasThen(c, {"<"}, tag) >>,
     css |->
        << \E l \in 1..Len(c) :
               /\ c[l].indent = 0
               /\ Len(c[l].tokens) >= 3
               /\ c[l].tokens[1] \in {".", "#", "*"}
               /\ \E i \in 3..Len(c[l].tokens) : c[l].tokens[i] = "{",
           \E w \in {"margin", "padding", "border", "color", "background", "font",
                     "display"} : HasThen(c, {w}, ":"),
           HasThen(c, {"@"}, "media") >>,
     ruby |->
        << Starts(c, {"def", "class", "module", "require", "include"}),
           Has(c, {"attr_accessor", "attr_reader", "attr_writer"}),
           HasThen(c, {"do"}, "|") >>,
     go |->
        << Starts(c, {"package", "import", "func", "type", "struct"}),
           Has(c, {"fmt", "go", "chan", "defer", "goroutine"}),
           Has(c, {"nil", "make", "new", "map", "slice"}) >>,
     rust |->
        << Starts(c, {"fn", "struct", "enum", "impl", "trait", "let", "mut", "pub"}),
           Has(c, {"Option", "Result", "Some", "None", "Ok", "Err"}),
           Has(c, {"match"}) \/ HasThen(c, {"if", "while"}, "let") >>,
     swift |->
        << Starts(c, {"import", "class", "struct", "enum", "protocol", "extension"}),
           Has(c, {"var", "let", "func", "guard", "optional"}),
           Has(c, {"UIViewController", "UIView", "SwiftUI"}) >>,
     kotlin |->
        << Starts(c, {"fun", "class", "interface", "object", "val", "var", "package",
                      "import"}),
           Has(c, {"override", "lateinit", "companion", "suspend"}),
           Has(c, {"null", "Unit", "Any", "String", "Int", "Boolean"}) >>]

\* Object.entries(languagePatterns): the languages in the order written
LanguageOrder ==
    << "javascript", "typescript", "python", "java", "csharp", "php", "html", "css",
       "ruby", "go", "rust", "swift", "kotlin" >>

Languages == {LanguageOrder[i] : i \in 1..Len(LanguageOrder)}

\* scores[language] = patterns.filter(pattern => pattern.test(code)).length
Score(c, language) ==
    LET matched == LanguagePatterns(c)[language]
    IN  Cardinality({i \in 1..Len(matched) : matched[i]})

MaxScore(c) ==
    CHOOSE m \in 0..3 :
        /\ \E language \in Languages : Score(c, language) = m
        /\ \A language \in Languages : Score(c, language) <= m

\* detectLanguage: undefined below the least score, else the first language in
\* the order of the table whose score is the greatest
detectLanguage(c) ==
    IF MaxScore(c) < MinLanguageScore THEN None
    ELSE LET first == CHOOSE i \in 1..Len(LanguageOrder) :
                          /\ Score(c, LanguageOrder[i]) = MaxScore(c)
                          /\ \A j \in 1..(i - 1) : Score(c, LanguageOrder[j]) # MaxScore(c)
         IN  Some(LanguageOrder[first])

\* codePatterns.some(pattern => pattern.test(text))
HasCodePattern(c) ==
    \/ StartsThenWord(c, {"const", "let", "var", "function", "class", "import", "export"})
    \/ Starts(c, {"def", "class", "import", "from", "if __name__"})
    \/ Starts(c, {"public", "private", "protected", "class", "interface", "enum"})
    \/ Starts(c, {"#include"}) \/ StartsThenOneOf(c, {"int", "void"}, {"main"})
    \/ Starts(c, {"<?php", "namespace"}) \/ StartsThenWordThen(c, {"use"}, ";")
    \/ StartsThenWordThen(c, {"package", "import"}, ";")
    \/ Starts(c, {"<!DOCTYPE", "<html", "<head", "<body", "<script", "<style"})
    \/ Starts(c, {"@media"}) \/ StartsThenOneOf(c, {"body"}, {"{"})
    \/ StartsThenWordThen(c, {".", "#"}, "{")

\* the lines with a special character
SpecialLines(c) ==
    {l \in 1..Len(c) : \E i \in 1..Len(c[l].tokens) : c[l].tokens[i] \in SpecialChars}

\* the lines /^(\s+)\S/ matches with a positive indent
IndentedLines(c) == {l \in 1..Len(c) : c[l].indent > 0 /\ c[l].tokens # <<>>}

\* indents.length > 0 && new Set(indents).size < indents.length / 2
HasConsistentIndent(c) ==
    /\ IndentedLines(c) # {}
    /\ 2 * Cardinality({c[l].indent : l \in IndentedLines(c)}) < Cardinality(IndentedLines(c))

\* isCodeBlock on a text given by its lines: specialCharRatio > 0.3 is
\* 10 * special lines > 3 * lines
isCodeBlockLines(c) ==
    \/ HasCodePattern(c)
    \/ /\ 10 * Cardinality(SpecialLines(c)) > 3 * Len(c)
       /\ HasConsistentIndent(c)

\* the lines the classified texts are made of
CodeLines ==
    { Line(0, <<"def", "foo", "(", ")", ":">>),
      Line(4, <<"return", "1">>),
      Line(0, <<"let", "x", "=", "None">>),
      Line(0, <<"import", "fmt">>),
      Line(4, <<"def", "bar", "(", "self", ")", ":">>) }

\* "def foo():\n    return 1"
DefFoo == << Line(0, <<"def", "foo", "(", ")", ":">>), Line(4, <<"return", "1">>) >>

InitClassify ==
    /\ ChunkIdle
    /\ StoreIdle
    /\ ContextIdle
    /\ TranslateIdle
    /\ ExtractIdle
    /\ ApiIdle
    /\ StartupIdle
    /\ code \in {c \in SeqsUpTo(CodeLines, MaxLines) : c # <<>>}
    /\ classification = None

\* the classifier on the text: isCodeBlock and detectLanguage
Classify ==
    /\ classification = None
    /\ classification' = Some([isCode |-> isCodeBlockLines(code),
                               language |-> detectLanguage(code)])
    /\ UNCHANGED <<chunkVars, clockVars, storage, cacheObs, contextVars, translateVars,
                   extractVars, apiVars, code, startupVars>>

NextClassify == Classify

SpecClassify == InitClassify /\ [][NextClassify]_vars

(***************************************************************************)
(* Content scripts starting in their tabs (part_003) and the background's   *)
(* savePageContext (helpers.ts) run await by await                          *)
(***************************************************************************)
\* the store of an earlier session: empty, or one document saved with its content
InitStartup ==
    /\ ChunkIdle
    /\ ClockInit
    /\ cacheExpiration = DefaultCacheExpiration
    /\ CacheObsIdle
    /\ ContextIdle
    /\ TranslateIdle
    /\ ExtractIdle
    /\ ApiIdle
    /\ ClassifyIdle
    /\ StartupIdle
    /\ storage \in {EmptyStorage} \cup
          {savePageContext(EmptyStorage, [NewPageContext(url, 1) EXCEPT !.content = PageText]) :
              url \in StoreUrls}

\* processPage on the tab, given this.pageContext: with a context, the content
\* is extracted and savePageContext refreshes lastUpdated and sends
\* SAVE_PAGE_CONTEXT; without one, nothing is saved
ProcessedContext(context, t) ==
    IF context = None THEN None
    ELSE Some([context[1] EXCEPT !.content = PageText, !.lastUpdated = t])

processPage(state, context, t) ==
    IF context = None THEN [state EXCEPT !.page = "processed"]
    ELSE [state EXCEPT !.page = "processed", !.save = "sent",
                       !.context = ProcessedContext(context, t)]

\* ContentScript.initialize: initializePageContext sends GET_PAGE_CONTEXT and is
\* not awaited; processPage runs at once unless the document is still loading,
\* when it waits for DOMContentLoaded
Initialize(url) ==
    /\ tab[url].load = "idle"
    /\ \E readyState \in {"loading", "complete"} :
        LET started == [tab[url] EXCEPT !.load = "sent",
                                        !.firstVisit = (getPageContext(storage, url) = None)]
        IN  /\ tab' = [tab EXCEPT ![url] =
                          IF readyState = "loading"
                          THEN [started EXCEPT !.page = "waiting"]
                          ELSE processPage(started, csContext[url], now)]
            /\ csContext' = [csContext EXCEPT ![url] =
                                IF readyState = "loading" THEN @
                                ELSE ProcessedContext(@, now)]
    /\ UNCHANGED <<chunkVars, clockVars, storage, cacheObs, saveLog, saves, qa, savedAt,
                   chatResult, translateVars, extractVars, apiVars, classifyVars>>

\* initializePageContext from the response on: the stored context, or a new one
LoadResolves(url) ==
    /\ tab[url].load = "sent"
    /\ tab' = [tab EXCEPT ![url].load = "done"]
    /\ csContext' = [csContext EXCEPT ![url] =
                        IF getPageContext(storage, url) # None
                        THEN getPageContext(storage, url)
                        ELSE Some(NewPageContext(url, now))]
    /\ UNCHANGED <<chunkVars, clockVars, storage, cacheObs, saveLog, saves, qa, savedAt,
                   chatResult, translateVars, extractVars, apiVars, classifyVars>>

\* the DOMContentLoaded listener: processPage
DomContentLoaded(url) ==
    /\ tab[url].page = "waiting"
    /\ tab' = [tab EXCEPT ![url] = processPage(@, csContext[url], now)]
    /\ csContext' = [csContext EXCEPT ![url] = ProcessedContext(@, now)]
    /\ UNCHANGED <<chunkVars, clockVars, storage, cacheObs, saveLog, saves, qa, savedAt,
                   chatResult, translateVars, extractVars, apiVars, classifyVars>>

\* savePageContext: await browser.storage.local.set({ [key]: context })
SaveSet(url) ==
    /\ tab[url].save = "sent"
    /\ storage' = StorageSet(storage, PageKey(url), tab[url].context[1])
    /\ tab' = [tab EXCEPT ![url].save = "set"]
    /\ UNCHANGED <<chunkVars, clockVars, cacheObs, contextVars, translateVars,
                   extractVars, apiVars, classifyVars>>

\* savePageContext: const recentPages = await getRecentPages()
SaveRead(url) ==
    /\ tab[url].save = "set"
    /\ tab' = [tab EXCEPT ![url].save = "read",
                          ![url].recentPages = getRecentPages(storage)]
    /\ UNCHANGED <<chunkVars, clockVars, storage, cacheObs, contextVars, translateVars,
                   extractVars, apiVars, classifyVars>>

\* savePageContext: await browser.storage.local.set({ recentPages: updatedPages })
SaveWrite(url) ==
    /\ tab[url].save = "read"
    /\ storage' = StorageSet(storage, RecentPagesKey,
                             UpdatedPages(tab[url].recentPages, url))
    /\ tab' = [tab EXCEPT ![url].save = "written"]
    /\ UNCHANGED <<chunkVars, clockVars, cacheObs, contextVars, translateVars,
                   extractVars, apiVars, classifyVars>>

NextStartup ==
    \E url \in StoreUrls :
        \/ Initialize(url)
        \/ LoadResolves(url)
        \/ DomContentLoaded(url)
        \/ SaveSet(url)
        \/ SaveRead(url)
        \/ SaveWrite(url)

SpecStartup == InitStartup /\ [][NextStartup]_vars

\* concatenation of the chunks in the order returned
RECURSIVE Concat(_)
Concat(ss) == IF ss = <<>> THEN <<>> ELSE Head(ss) \o Concat(Tail(ss))

\* the content of a text: its characters with the separators (whitespace) removed
Content(s) == SelectSeq(s, LAMBDA c : ~IsWs(c))

\* C2: every chunk returned by split(text, maxChunkSize) has length <= maxChunkSize,
\* also the chunks accumulated from several paragraphs or sentences with their separator.
ChunksWithinMax ==
    splitDone => \A i \in 1..Len(chunks) : Len(chunks[i]) <= maxChunkSize

\* C3: joining the chunks in the order returned reproduces the content of the text:
\* every non-separator character exactly once and in its original order.
ChunksPreserveContent ==
    splitDone => Content(Concat(chunks)) = Content(text)

EvictRemovesOnlyExpired ==
    sweep # None =>
        LET before == sweep[1].before
            after == sweep[1].after
        IN  /\ DOMAIN after \subseteq DOMAIN before
            /\ \A k \in DOMAIN before :
                IF k[1] = "cache_" /\ sweep[1].at - before[k].timestamp > RetentionMs
                THEN k \notin DOMAIN after
                ELSE k \in DOMAIN after /\ after[k] = before[k]

\* a sweep that removed an entry and kept an entry past the short TTL, a
\* document context and the tracked-document list
EvictWitness ==
    /\ sweep # None
    /\ DOMAIN sweep[1].after # DOMAIN sweep[1].before
    /\ \E k \in DOMAIN sweep[1].after :
        /\ k[1] = "cache_"
        /\ sweep[1].at - sweep[1].after[k].timestamp > ExpirationMs
    /\ \E k \in DOMAIN sweep[1].after : k[1] = "page_"
    /\ RecentPagesKey \in DOMAIN sweep[1].after

\* the position of the last save of url in the log
LastSaveOf(log, url) == CHOOSE i \in 1..Len(log) : log[i] = url /\ \A j \in (i + 1)..Len(log) : log[j] # url

\* the distinct urls of the log, most recently saved first, cut to the limit
MostRecentlySaved(log) ==
    LET urls == {log[i] : i \in 1..Len(log)}
        rank(u) == Cardinality({v \in urls : LastSaveOf(log, v) > LastSaveOf(log, u)}) + 1
        n == IF Cardinality(urls) < RecentPagesLimit THEN Cardinality(urls) ELSE RecentPagesLimit
    IN  [i \in 1..n |-> CHOOSE u \in urls : rank(u) = i]

\* C9: after any sequence of saves the tracked-document list is the up-to-10 most
\* recently saved distinct documents, most recent first: no duplicates, at most 10
\* entries, the document just saved in front; an 11th document drops the least
\* recently saved one.
RecentPagesAreMostRecent ==
    LET recentPages == getRecentPages(storage)
    IN  /\ recentPages = MostRecentlySaved(saveLog)
        /\ Len(recentPages) <= RecentPagesLimit
        /\ \A i, j \in 1..Len(recentPages) : i # j => recentPages[i] # recentPages[j]
        /\ saveLog # <<>> => recentPages[1] = saveLog[Len(saveLog)]

\* a save of an 11th distinct document into a full list
RecentPagesWitness ==
    /\ saves > 0
    /\ Cardinality({saveLog[i] : i \in 1..Len(saveLog)}) > RecentPagesLimit
    /\ Len(getRecentPages(storage)) = RecentPagesLimit
    /\ saveLog[1] \notin {getRecentPages(storage)[i] : i \in 1..RecentPagesLimit}

\* C10: every save of a document context persists it with lastUpdated set to the
\* time of that save, whichever caller saves: the content script's re-extraction,
\* its translation round, or the background's QA round.
SaveRefreshesLastUpdated ==
    \A url \in StoreUrls :
        savedAt[url] # None =>
            storage[PageKey(url)].lastUpdated = savedAt[url][1]

AtMostOneCallInFlight ==
    Cardinality({h \in Requests : handler[h].pc = "awaitTranslate"}) <= 1

\* C6: translateText reuses a stored translation without a backend call only if
\* the stored translation is younger than the short TTL.
ReuseOnlyIfFresh ==
    lastHit # None => lastHit[1].at - lastHit[1].timestamp < ExpirationMs

\* C8: when the backend call for a segment fails during a page translation, the
\* error reaches the caller: the request does not report success; the segments
\* translated before keep their translations.
BackendFailurePropagates ==
    \A h \in Requests :
        (handler[h].pc = "done" /\ handler[h].failed) => handler[h].result = "failure"

\* s is a prefix of t
IsPrefix(s, t) == Len(s) <= Len(t) /\ \A i \in 1..Len(s) : t[i] = s[i]

\* C11: the chatHistory stored for a document is append-only: across QA rounds
\* and content-script saves every stored chatHistory has the chatHistory stored
\* before for that document as a prefix.
ChatHistoryAppendOnly ==
    [][\A url \in StoreUrls :
          (PageKey(url) \in DOMAIN storage /\ PageKey(url) \in DOMAIN storage') =>
              IsPrefix(storage[PageKey(url)].chatHistory,
                       storage'[PageKey(url)].chatHistory)]_vars

\* C12: the lastUpdated stored for a document never decreases, also when a QA
\* round loads the context, awaits the backend and saves after a content-script
\* save of the same document.
LastUpdatedMonotonic ==
    [][\A url \in StoreUrls :
          (PageKey(url) \in DOMAIN storage /\ PageKey(url) \in DOMAIN storage') =>
              storage[PageKey(url)].lastUpdated <= storage'[PageKey(url)].lastUpdated]_vars

\* C14: a successful QA round extends the chatHistory the round loaded by exactly
\* two messages, the user question followed by the assistant answer, and persists
\* the extended context; a failed backend call appends nothing and leaves the
\* store unchanged.
QaRoundAppendsTwo ==
    [][(qa # None /\ qa' = None) =>
          LET round == qa[1]
              before == round.context.chatHistory
              after == storage'[PageKey(round.url)].chatHistory
          IN  IF chatResult'[1].result.success
              THEN /\ Len(after) = Len(before) + 2
                   /\ IsPrefix(before, after)
                   /\ after[Len(before) + 1].role = "user"
                   /\ after[Len(before) + 1].content = round.query
                   /\ after[Len(before) + 2].role = "assistant"
                   /\ after[Len(before) + 2].content = chatResult'[1].result.response
              ELSE storage' = storage]_vars

\* a second successful round: four stored messages, question and answer twice
QaRoundWitness ==
    /\ chatResult # None
    /\ chatResult[1].result.success
    /\ qa = None
    /\ Len(storage[PageKey(chatResult[1].url)].chatHistory) = 4

\* C15: a QA request for a url with no stored context returns a failure that
\* differs from every backend-call failure, makes no backend call and writes
\* nothing to the store.
ContextNotFoundIsDistinct ==
    [][(chatResult' # chatResult /\ getPageContext(storage, chatResult'[1].url) = None) =>
          /\ ~chatResult'[1].result.success
          /\ \A error \in BackendErrors :
                chatResult'[1].result # ChatResponse(FALSE, "", error)
          /\ ~chatResult'[1].called
          /\ qa' = None
          /\ storage' = storage]_vars

\* a QA request for a url that has no stored context, answered
ContextNotFoundWitness ==
    /\ chatResult # None
    /\ getPageContext(storage, chatResult[1].url) = None
    /\ chatResult[1].result = ContextNotFound

\* C18: the translated sequence is parallel to the input sequence: same length,
\* and at every index the same kind and tag as the input segment, whether the
\* segment was translated, skipped as code, had empty text or failed to translate.
TranslatedSequenceParallel ==
    /\ \A h \in Requests :
        /\ Len(handler[h].translatedItems) <= Len(handler[h].input)
        /\ handler[h].pc \in {"awaitTranslate"} =>
              Len(handler[h].translatedItems) = handler[h].i - 1
        /\ handler[h].pc \in {"sleep"} =>
              Len(handler[h].translatedItems) = handler[h].i
        /\ handler[h].pc \in {"save", "done"} =>
              Len(handler[h].translatedItems) = Len(handler[h].input)
        /\ \A i \in 1..Len(handler[h].translatedItems) :
              /\ handler[h].translatedItems[i].type = handler[h].input[i].type
              /\ handler[h].translatedItems[i].tag = handler[h].input[i].tag
    /\ translatedStructuredContent # None =>
        \E h \in Requests :
            /\ handler[h].pc \in {"save", "done"}
            /\ translatedStructuredContent[1] = handler[h].translatedItems

\* a finished translation of a segment that failed next to a segment with empty
\* text or code, and one of a translated segment
TranslatedSequenceWitness ==
    /\ translatedStructuredContent # None
    /\ \E h \in Requests :
        /\ handler[h].pc = "done"
        /\ handler[h].failed
        /\ Len(handler[h].input) = 2
        /\ \E i \in 1..2 : ItemAction(handler[h].input[i]) = "copy"
    /\ \E h \in Requests :
        /\ handler[h].pc = "done"
        /\ \E i \in 1..Len(handler[h].input) :
              handler[h].translatedItems[i].content # handler[h].input[i].content

\* C19: extract emits the segments in document order: if unit a precedes unit b
\* in the page, whatever their kinds, a's segment precedes b's in the output.
ExtractInDocumentOrder ==
    extracted # None =>
        \A i, j \in 1..Len(extracted[1]) :
            extracted[1][i].node < extracted[1][j].node => i < j

\* C20: no emitted segment carries a linking, scripting or event-binding
\* attribute: no href or src, no name beginning with on, no value containing
\* javascript:.
NoExecutableAttributes ==
    extracted # None =>
        \A i \in 1..Len(extracted[1]) :
            \A attr \in extracted[1][i].attributes :
                /\ attr.name \notin {AttrHref.name, AttrSrc.name}
                /\ ~StartsWithOn(attr.name)
                /\ ~IncludesJavascript(attr.value)

\* C13: generateChatResponse returns a fixed fallback string and makes no backend
\* call whenever the question or the page content is empty after trimming.
EmptyChatInputAnswered ==
    (/\ apiRequest.op = "generateChatResponse"
     /\ IsBlankText(apiRequest.question) \/ IsBlankText(apiRequest.context)) =>
        /\ backendLog = <<>>
        /\ returned # None =>
              /\ ~returned[1].threw
              /\ returned[1].value \in {EmptyQuestionFallback, EmptyContextFallback}

\* C16: translateText on an empty or whitespace-only text returns the text
\* unchanged, without a backend call and without writing a cache entry, in every
\* implementation.
EmptyTextReturned ==
    (apiRequest.op = "translateText" /\ IsBlankText(apiRequest.text)) =>
        /\ backendLog = <<>>
        /\ storage = CacheBefore(apiRequest.text, apiRequest.cache, now)
        /\ returned # None =>
              /\ ~returned[1].threw
              /\ returned[1].value = apiRequest.text

ShortTextIsOneChunk ==
    (splitDone /\ Len(text) <= maxChunkSize) => chunks = <<text>>

\* a short text with a paragraph break, returned whole
ShortTextWitness ==
    /\ splitDone
    /\ Len(text) <= maxChunkSize
    /\ Len(SplitParagraphs(text)) > 1
    /\ chunks = <<text>>

\* the number of slices of a sentence of n characters: ceil(n / max)
SliceCount(n, max) == (n + max - 1) \div max

\* C30: for maxChunkSize >= 1 the hard-cut loop terminates: every iteration
\* removes maxChunkSize characters of the remaining sentence, and the loop ends
\* after ceil(length / maxChunkSize) slices.
HardCutTerminates ==
    /\ <>splitDone
    /\ [](splitDone => /\ Len(chunks) = SliceCount(Len(text), maxChunkSize)
                       /\ chunks = HardCut(text, maxChunkSize))
    /\ [](Len(chunks) * maxChunkSize + Len(remainingSentence) >= Len(text))

\* a loop that has ended after three slices, the last one shorter
HardCutWitness ==
    /\ splitDone
    /\ remainingSentence = <<>>
    /\ Len(text) > maxChunkSize
    /\ Len(chunks) = 3
    /\ Len(chunks[3]) < maxChunkSize

\* C21: re-serializing a segment sequence yields one top-level element per
\* segment, in the same order, whose tag equals the segment's tag, for every
\* segment kind.
DisplayKeepsTags ==
    displayed # None =>
        /\ Len(displayed[1]) = Len(extracted[1])
        /\ \A i \in 1..Len(extracted[1]) : displayed[1][i].tag = extracted[1][i].tag

\* the languages with the greatest score
Winners(c) == {language \in Languages : Score(c, language) = MaxScore(c)}

\* C22: the text "def foo():\n    return 1" is classified as code with language
\* python.
DefFooIsPython ==
    (code = DefFoo /\ classification # None) =>
        /\ classification[1].isCode
        /\ classification[1].language = Some("python")

\* C25: a language is returned only when exactly one language has the strictly
\* greatest score and that score is at least 2; on a tie for the greatest score,
\* or a greatest score below 2, the language is null.
LanguageNeedsStrictMaximum ==
    classification # None =>
        classification[1].language =
            IF MaxScore(code) >= MinLanguageScore /\ Cardinality(Winners(code)) = 1
            THEN Some(CHOOSE language \in Winners(code) : TRUE)
            ELSE None

\* the documents whose context is stored
StoredDocs == {url \in Docs : getPageContext(storage, url) # None}

\* C24: a document context is retained only while its document is in the list of
\* the 10 most recently saved documents: loading a document that is no longer
\* tracked returns null, so at most 10 contexts are stored.
ContextsOnlyWhileTracked ==
    LET recentPages == getRecentPages(storage)
    IN  /\ \A url \in Docs :
            url \notin {recentPages[i] : i \in 1..Len(recentPages)} =>
                getPageContext(storage, url) = None
        /\ Cardinality(StoredDocs) <= RecentPagesLimit

\* C26: a cache entry is stale only when its age strictly exceeds the TTL: a get
\* of an entry put and not overwritten returns null exactly when the age is
\* greater than the short TTL, so an entry aged exactly the short TTL is still
\* returned, and a sweep keeps an entry aged exactly the 7-day retention.
StaleOnlyBeyondTtl ==
    /\ lastGet # None =>
        LET g == lastGet[1]
        IN  (g.put # None /\ g.put[1].text = g.text) =>
                (g.result = None <=> g.at - g.put[1].at > ExpirationMs)
    /\ sweep # None =>
        \A k \in DOMAIN sweep[1].before :
            (k[1] = "cache_" /\ sweep[1].at - sweep[1].before[k].timestamp = RetentionMs)
                => k \in DOMAIN sweep[1].after

\* C27: if a backend call made by translateText fails, the single call or any
\* chunk's, translateText throws and the cache is exactly as it was before the
\* call; no entry is written while the backend calls are in flight either.
BackendFailureLeavesCache ==
    apiRequest.op = "translateText" =>
        /\ apiCall # None => storage = CacheBefore(apiRequest.text, apiRequest.cache, now)
        /\ (returned # None /\ returned[1].failed) =>
              /\ returned[1].threw
              /\ storage = CacheBefore(apiRequest.text, apiRequest.cache, now)

\* a chunked text with a stale cache entry, one of whose chunks failed
BackendFailureWitness ==
    /\ apiRequest.op = "translateText"
    /\ apiRequest.impl = "TranslationEngine"
    /\ apiRequest.cache = "stale"
    /\ Len(backendLog) >= 2
    /\ returned # None
    /\ returned[1].failed
    /\ returned[1].threw
    /\ CacheKey(apiRequest.text) \in DOMAIN storage
    /\ storage[CacheKey(apiRequest.text)].timestamp < now

\* C28: when the saves of two different documents overlap, each reading the
\* tracked list and writing it back after an await, both documents are in the
\* tracked list once both saves have completed.
OverlappingSavesKeepBoth ==
    (\A url \in StoreUrls : tab[url].save = "written") =>
        \A url \in StoreUrls :
            \E i \in 1..Len(getRecentPages(storage)) : getRecentPages(storage)[i] = url

\* C29: on a first visit, once the content script has started, the context load
\* has resolved and processPage has run, a context of the document with the
\* extracted content is stored, whichever of the load and processPage came first.
FirstVisitSaved ==
    \A url \in StoreUrls :
        (/\ tab[url].firstVisit
         /\ tab[url].load = "done"
         /\ tab[url].page = "processed"
         /\ tab[url].save \in {"none", "written"}) =>
            /\ getPageContext(storage, url) # None
            /\ getPageContext(storage, url)[1].content = PageText

====
